---- MODULE Spec2Model ----
(***************************************************************************)
(* The process-wide string interner of immie2d_shared                      *)
(* (engine_types/global_string.rs): GLOBAL_STRING_MAP, a                   *)
(* Mutex<GlobalStringMaps>, and the GlobalString handle operations default,*)
(* new, new_if_exists and to_string, called by several threads.            *)
(*                                                                         *)
(* Rust's Vec is indexed from 0, a TLA+ sequence from 1: slot i of         *)
(* maps.vec is vec[i + 1].                                                 *)
(*                                                                         *)
(* The bounded tag sets of immie2d_shared::gameplay: AbilityNames          *)
(* (ability/ability_names.rs), Elements (elements/elements_data.rs) and    *)
(* Type (types/type_data.rs), with their iterators. A panic of an          *)
(* operation is modelled by the error kind of the assertion that fired.    *)
(***************************************************************************)
EXTENDS Integers, Sequences, FiniteSets, TLC

\* ------------------------------------------------------------------ bounds
NumThreads == 2
MaxTexts == 2
\* Calls the program makes in one run
MaxCalls == 6

\* Tag values callers pass as single items: 0 (the default handle / Invalid)
\* and the valid values 1..MaxItem
MaxItem == 3
\* Items a caller's list has after its run of distinct values
MaxTail == 2
\* add is called on a tag set value while at most MaxAdds adds on it succeeded
MaxAdds == 5
\* Iterators alive on one tag set value
NumIters == 2
\* Ability kinds the program has, two to a name
NumKinds == 4
\* add_ability calls made on the AbilityMap
MaxRegs == 3
\* Bytes a line the user types has before its newline
MaxLineLen == 1

Threads == 1..NumThreads

\* The texts callers pass in: the empty string and MaxTexts non-empty ones.
TextPool == <<"a", "b", "c", "d">>
Texts == {""} \cup {TextPool[i] : i \in 1..MaxTexts}

NoThread == 0
\* Option<u32>::None / Option<&u32>::None
None == -1

\* ------------------------------------------------------------------- state
VARIABLES
    map,        \* GlobalStringMaps.map : HashMap<String, u32>
    vec,        \* GlobalStringMaps.vec : Vec<String>
    next_id,    \* GlobalStringMaps.next_id : u32
    lock,       \* the thread holding the Mutex guard, or NoThread
    poisoned,   \* the Mutex's poison flag (a thread panicked holding the guard)
    pc,         \* per thread: "idle", "body", "push", "panicked"
    op,         \* per thread: the function it is in
    in_string,  \* per thread: the &String argument of new / new_if_exists
    string_id,  \* per thread: self.string_id of the handle to_string is called on
    loc_next_id,\* per thread: the local `let next_id` of new
    calls,      \* history: calls made so far
    held,       \* history: string_ids of the GlobalString values the program was handed
    handed,     \* history: (text, id) of every completed GlobalString::new
    firstSeen,  \* history: first completed new of each text not in the table at start
    last,       \* history: the call that completed last
    inst,       \* which tag set type the run is about: "AbilityNames", "Elements", "Type"
    tset,       \* the tag set value the caller holds: [names, count], or NoSet
    built,      \* history: the members default / new built tset with
    adds,       \* history: the items added to tset since, in order
    tlast,      \* history: the tag set call that completed last
    iters,      \* per iterator: [index, out, ends], or NoIter
    ability_map,\* AbilityMap.map : HashMap<&'static str, fn() -> Box<dyn Ability>>
    regs,       \* history: the kinds add_ability was called with, in order
    rlast,      \* history: the AbilityMap call that completed last
    cpc,        \* client: "read_line", "write", "read_until", "exited"
    cround,     \* client: iterations of `for _ in 0..7` completed
    user_input, \* client: the line read from stdin this round
    spc,        \* server thread: "read", "done"
    sround,     \* server: iterations of `for _ in 0..5` completed
    c2s,        \* bytes written by the client, not yet read by the server
    s2c,        \* bytes written by the server, not yet read by the client
    shut,       \* the server shut the stream down
    cclosed,    \* the client dropped the stream
    round       \* history: the round the client completed last: [n, sent, got]

tables == <<map, vec, next_id>>
ivars == <<map, vec, next_id, lock, poisoned, pc, op, in_string, string_id,
           loc_next_id, calls, held, handed, firstSeen, last>>
tvars == <<inst, tset, built, adds, tlast, iters>>
rvars == <<ability_map, regs, rlast>>
nvars == <<cpc, cround, user_input, spc, sround, c2s, s2c, shut, cclosed, round>>
vars == <<ivars, tvars, rvars, nvars>>

\* ------------------------------------------------------- std collections
\* HashMap::get
HashMapGet(m, k) == IF k \in DOMAIN m THEN m[k] ELSE None

\* HashMap::insert: the map afterwards. An existing key's value is REPLACED.
HashMapInsert(m, k, v) == [x \in (DOMAIN m) \cup {k} |-> IF x = k THEN v ELSE m[x]]

\* Vec indexing in range
InRange(v, i) == i >= 0 /\ i < Len(v)

\* ------------------------------------------------------------------- init
\* lazy_static GLOBAL_STRING_MAP: "" is handle 0.
GLOBAL_STRING_MAP ==
    /\ map = HashMapInsert(<<>>, "", 0)
    /\ next_id = 1
    /\ vec = Append(<<>>, "")
    /\ lock = NoThread
    /\ poisoned = FALSE

NoCall == [op |-> "none", text |-> "", id |-> 0, ok |-> TRUE]

\* The interner before any call.
InternerInit ==
    /\ GLOBAL_STRING_MAP
    /\ pc = [t \in Threads |-> "idle"]
    /\ op = [t \in Threads |-> "none"]
    /\ in_string = [t \in Threads |-> ""]
    /\ string_id = [t \in Threads |-> 0]
    /\ loc_next_id = [t \in Threads |-> 0]
    /\ calls = 0
    /\ held = {}
    /\ handed = {}
    /\ firstSeen = <<>>
    /\ last = NoCall

\* ---------------------------------------------------------------- helpers
\* The thread is back in its caller: locals are gone.
Returned(t) ==
    /\ pc' = [pc EXCEPT ![t] = "idle"]
    /\ op' = [op EXCEPT ![t] = "none"]
    /\ in_string' = [in_string EXCEPT ![t] = ""]
    /\ string_id' = [string_id EXCEPT ![t] = 0]
    /\ loc_next_id' = [loc_next_id EXCEPT ![t] = 0]

\* The thread unwinds with a panic and ends.
Panicked(t) ==
    /\ pc' = [pc EXCEPT ![t] = "panicked"]
    /\ op' = [op EXCEPT ![t] = "none"]
    /\ in_string' = [in_string EXCEPT ![t] = ""]
    /\ string_id' = [string_id EXCEPT ![t] = 0]
    /\ loc_next_id' = [loc_next_id EXCEPT ![t] = 0]

SeenTexts == {firstSeen[i].text : i \in 1..Len(firstSeen)}

\* History of a completed GlobalString::new(s) that returned id h.
RecordNew(s, h) ==
    /\ handed' = handed \cup {[text |-> s, id |-> h]}
    /\ held' = held \cup {h}
    /\ firstSeen' = IF s = "" \/ s \in SeenTexts THEN firstSeen
                    ELSE Append(firstSeen, [text |-> s, id |-> h])
    /\ last' = [op |-> "new", text |-> s, id |-> h, ok |-> TRUE]

\* ---------------------------------------------------------------- actions
\* GlobalString::default(): no lock, string_id 0.
default(t) ==
    /\ pc[t] = "idle"
    /\ calls < MaxCalls
    /\ calls' = calls + 1
    /\ held' = held \cup {0}
    /\ last' = [op |-> "default", text |-> "", id |-> 0, ok |-> TRUE]
    /\ UNCHANGED <<tables, lock, poisoned, pc, op, in_string, string_id,
                   loc_next_id, handed, firstSeen>>
    /\ UNCHANGED <<tvars, rvars, nvars>>

\* GLOBAL_STRING_MAP.lock().unwrap(), the first statement of new,
\* new_if_exists and to_string: the caller blocks while another thread holds
\* the guard; on a poisoned mutex lock() is Err and unwrap() panics (the guard
\* inside the error is dropped, so the mutex stays free).
Lock(t, f, s, h) ==
    /\ pc[t] = "idle"
    /\ calls < MaxCalls
    /\ calls' = calls + 1
    /\ lock = NoThread
    /\ IF poisoned
       THEN /\ Panicked(t)
            /\ last' = [op |-> f, text |-> s, id |-> h, ok |-> FALSE]
            /\ UNCHANGED lock
       ELSE /\ lock' = t
            /\ pc' = [pc EXCEPT ![t] = "body"]
            /\ op' = [op EXCEPT ![t] = f]
            /\ in_string' = [in_string EXCEPT ![t] = s]
            /\ string_id' = [string_id EXCEPT ![t] = h]
            /\ UNCHANGED <<loc_next_id, last>>
    /\ UNCHANGED <<tables, poisoned, held, handed, firstSeen>>
    /\ UNCHANGED <<tvars, rvars, nvars>>

\* A thread calls GlobalString::new(&s) or GlobalString::new_if_exists(&s).
CallText(t) ==
    \E f \in {"new", "new_if_exists"}, s \in Texts : Lock(t, f, s, 0)

\* A thread calls to_string on a GlobalString it was handed.
CallToString(t) ==
    \E h \in held : Lock(t, "to_string", "", h)

\* GlobalString::new, lines 55-61: read next_id, insert, return the old value
\* if there was one.
new_insert(t) ==
    /\ pc[t] = "body" /\ op[t] = "new" /\ lock = t
    /\ LET s == in_string[t]
           exists == HashMapGet(map, s)
       IN  /\ map' = HashMapInsert(map, s, next_id)
           /\ IF exists # None
              THEN /\ lock' = NoThread
                   /\ Returned(t)
                   /\ RecordNew(s, exists)
              ELSE /\ loc_next_id' = [loc_next_id EXCEPT ![t] = next_id]
                   /\ pc' = [pc EXCEPT ![t] = "push"]
                   /\ UNCHANGED <<lock, op, in_string, string_id,
                                  held, handed, firstSeen, last>>
    /\ UNCHANGED <<calls, vec, next_id, poisoned>>
    /\ UNCHANGED <<tvars, rvars, nvars>>

\* A new that stores the text in the last slot instead of pushing a slot.
new_push_overwriting(t) ==
    /\ pc[t] = "push" /\ lock = t
    /\ next_id' = next_id + 1
    /\ vec' = [vec EXCEPT ![Len(vec)] = in_string[t]]
    /\ lock' = NoThread
    /\ RecordNew(in_string[t], loc_next_id[t])
    /\ Returned(t)
    /\ UNCHANGED <<calls, map, poisoned>>
    /\ UNCHANGED <<tvars, rvars, nvars>>

\* GlobalString::new, lines 62-66: allocate the id, push the text, return.
new_push(t) ==
    /\ pc[t] = "push" /\ lock = t
    /\ next_id' = next_id + 1
    /\ vec' = Append(vec, in_string[t])
    /\ lock' = NoThread
    /\ RecordNew(in_string[t], loc_next_id[t])
    /\ Returned(t)
    /\ UNCHANGED <<calls, map, poisoned>>
    /\ UNCHANGED <<tvars, rvars, nvars>>

\* A new_if_exists whose "not found" handle is 1 instead of the default 0.
NewIfExistsId_one(m, s) ==
    IF HashMapGet(m, s) = None THEN 1 ELSE HashMapGet(m, s)

\* The string_id GlobalString::new_if_exists returns, lines 78-84.
NewIfExistsId(m, s) ==
    IF HashMapGet(m, s) = None THEN 0 ELSE HashMapGet(m, s)

\* A new_if_exists that looks the text up with insert, as new does.
new_if_exists_inserting(t) ==
    /\ pc[t] = "body" /\ op[t] = "new_if_exists" /\ lock = t
    /\ LET h == NewIfExistsId(map, in_string[t])
       IN  /\ held' = held \cup {h}
           /\ last' = [op |-> "new_if_exists", text |-> in_string[t], id |-> h,
                       ok |-> TRUE]
    /\ map' = HashMapInsert(map, in_string[t], next_id)
    /\ lock' = NoThread
    /\ Returned(t)
    /\ UNCHANGED <<calls, vec, next_id, poisoned, handed, firstSeen>>
    /\ UNCHANGED <<tvars, rvars, nvars>>

\* GlobalString::new_if_exists, lines 77-85.
new_if_exists(t) ==
    /\ pc[t] = "body" /\ op[t] = "new_if_exists" /\ lock = t
    /\ LET h == NewIfExistsId(map, in_string[t])
       IN  /\ held' = held \cup {h}
           /\ last' = [op |-> "new_if_exists", text |-> in_string[t], id |-> h,
                       ok |-> TRUE]
    /\ lock' = NoThread
    /\ Returned(t)
    /\ UNCHANGED <<calls, tables, poisoned, handed, firstSeen>>
    /\ UNCHANGED <<tvars, rvars, nvars>>

\* GlobalString::to_string, lines 96-97: index maps.vec; out of range panics
\* with the guard held, which poisons the mutex.
to_string(t) ==
    /\ pc[t] = "body" /\ op[t] = "to_string" /\ lock = t
    /\ IF InRange(vec, string_id[t])
       THEN /\ last' = [op |-> "to_string", text |-> vec[string_id[t] + 1],
                        id |-> string_id[t], ok |-> TRUE]
            /\ Returned(t)
            /\ UNCHANGED poisoned
       ELSE /\ last' = [op |-> "to_string", text |-> "", id |-> string_id[t], ok |-> FALSE]
            /\ Panicked(t)
            /\ poisoned' = TRUE
    /\ lock' = NoThread
    /\ UNCHANGED <<calls, tables, held, handed, firstSeen>>
    /\ UNCHANGED <<tvars, rvars, nvars>>

\* =============================================================== tag sets
\* A tag set value is [names |-> the fixed array, count |-> members in use];
\* slot i of the Rust array is names[i + 1]. A tag is a number: the string_id
\* of a GlobalString, or the u8 of an ElementKind / TypeKind (Invalid = 0,
\* Standard = 1, ..., Dragon = 11).
MAX_ABILITIES_COUNT == 5
ELEMENT_COUNT == 11
TYPE_COUNT == 11
Invalid == 0

\* No value: the call panicked before returning one.
NoSet == [names |-> <<>>, count |-> -1]
Failed(kind) == [err |-> kind, set |-> NoSet]
Done(set) == [err |-> "ok", set |-> set]

\* ---------------------------------------------------------- AbilityNames
\* AbilityNames::default
AbilityNames_default ==
    [names |-> [i \in 1..MAX_ABILITIES_COUNT |-> 0], count |-> 0]

\* A has_ability that scans the whole array, not the first count slots.
has_ability_all_slots(self, in_ability) ==
    \E i \in 1..MAX_ABILITIES_COUNT : self.names[i] = in_ability

\* AbilityNames::has_ability
has_ability(self, in_ability) ==
    \E i \in 1..self.count : self.names[i] = in_ability

\* An add_ability that tests count <= MAX_ABILITIES_COUNT.
add_ability_off_by_one(self, in_ability) ==
    IF has_ability(self, in_ability) THEN [err |-> "DuplicateTag", set |-> self]
    ELSE IF ~(self.count <= MAX_ABILITIES_COUNT)
         THEN [err |-> "CapacityExceeded", set |-> self]
    ELSE Done([names |-> [i \in 1..MAX_ABILITIES_COUNT |->
                             IF i = self.count + 1 THEN in_ability
                             ELSE self.names[i]],
               count |-> self.count + 1])

\* An add_ability whose capacity assertion comes before the duplicate one.
add_ability_capacity_first(self, in_ability) ==
    IF ~(self.count < MAX_ABILITIES_COUNT)
    THEN [err |-> "CapacityExceeded", set |-> self]
    ELSE IF has_ability(self, in_ability) THEN [err |-> "DuplicateTag", set |-> self]
    ELSE Done([names |-> [self.names EXCEPT ![self.count + 1] = in_ability],
               count |-> self.count + 1])

\* An add_ability that writes names[count - 1], the last member's slot.
add_ability_over_last(self, in_ability) ==
    IF has_ability(self, in_ability) THEN [err |-> "DuplicateTag", set |-> self]
    ELSE IF ~(self.count < MAX_ABILITIES_COUNT)
         THEN [err |-> "CapacityExceeded", set |-> self]
    ELSE Done([names |-> [i \in 1..MAX_ABILITIES_COUNT |->
                             IF i = self.count THEN in_ability
                             ELSE self.names[i]],
               count |-> self.count + 1])

\* AbilityNames::add_ability: the two assertions, then the write. The set
\* field of a failure is self as the panic leaves it.
add_ability(self, in_ability) ==
    IF has_ability(self, in_ability) THEN [err |-> "DuplicateTag", set |-> self]
    ELSE IF ~(self.count < MAX_ABILITIES_COUNT)
         THEN [err |-> "CapacityExceeded", set |-> self]
    ELSE Done([names |-> [self.names EXCEPT ![self.count + 1] = in_ability],
               count |-> self.count + 1])

\* The loop of AbilityNames::new: a panic of add_ability ends it with no value.
RECURSIVE AbilityNames_new_loop(_, _)
AbilityNames_new_loop(ability_names, in_abilities) ==
    IF in_abilities = <<>> THEN Done(ability_names)
    ELSE LET r == add_ability(ability_names, Head(in_abilities))
         IN  IF r.err # "ok" THEN Failed(r.err)
             ELSE AbilityNames_new_loop(r.set, Tail(in_abilities))

\* An AbilityNames::new without the assertion on the list's length.
AbilityNames_new_unchecked_length(in_abilities) ==
    AbilityNames_new_loop(AbilityNames_default, in_abilities)

\* AbilityNames::new
AbilityNames_new(in_abilities) ==
    IF ~(Len(in_abilities) <= MAX_ABILITIES_COUNT) THEN Failed("CapacityExceeded")
    ELSE AbilityNames_new_loop(AbilityNames_default, in_abilities)

\* AbilityNames::get_count
get_count(self) == self.count

\* A get_names that copies the whole array, unused slots included.
get_names_all_slots(self) == self.names

\* AbilityNames::get_names
get_names(self) == [i \in 1..self.count |-> self.names[i]]

\* AbilityNames::iter
AbilityNames_iter(self) == [index |-> 0]

\* AbilityNamesIter::next: [item |-> Some(tag) or None, index |-> the new index];
\* names[self.index - 1] after the increment is slot index, names[index + 1] here.
AbilityNamesIter_next(it, ability_names) ==
    IF it.index >= ability_names.count THEN [item |-> None, index |-> it.index]
    ELSE [item |-> ability_names.names[it.index + 1], index |-> it.index + 1]

\* ---------------------------------------------------------- Elements
\* Elements: names is the field elements, count the field Elements_count.
\* Elements::has_Elements
has_Elements(self, in_Elements) ==
    \E i \in 1..self.count : self.names[i] = in_Elements

\* An add_Elements whose capacity check comes before the two assertions.
add_Elements_capacity_first(self, in_Elements) ==
    IF ~(self.count < ELEMENT_COUNT) THEN [err |-> "CapacityExceeded", set |-> self]
    ELSE IF has_Elements(self, in_Elements) THEN [err |-> "DuplicateTag", set |-> self]
    ELSE IF ~(in_Elements # Invalid) THEN [err |-> "InvalidTagValue", set |-> self]
    ELSE Done([names |-> [self.names EXCEPT ![self.count + 1] = in_Elements],
               count |-> self.count + 1])

\* An add_Elements without the duplicate assertion.
add_Elements_accepting_duplicates(self, in_Elements) ==
    IF ~(in_Elements # Invalid) THEN [err |-> "InvalidTagValue", set |-> self]
    ELSE IF ~(self.count < ELEMENT_COUNT) THEN [err |-> "CapacityExceeded", set |-> self]
    ELSE Done([names |-> [self.names EXCEPT ![self.count + 1] = in_Elements],
               count |-> self.count + 1])

\* Elements::add_Elements: the two assertions and the capacity check (a debug_assert
\* in debug builds, the array's bounds check otherwise), then the write.
add_Elements(self, in_Elements) ==
    IF has_Elements(self, in_Elements) THEN [err |-> "DuplicateTag", set |-> self]
    ELSE IF ~(in_Elements # Invalid) THEN [err |-> "InvalidTagValue", set |-> self]
    ELSE IF ~(self.count < ELEMENT_COUNT) THEN [err |-> "CapacityExceeded", set |-> self]
    ELSE Done([names |-> [self.names EXCEPT ![self.count + 1] = in_Elements],
               count |-> self.count + 1])

\* The loop of Elements::new: a panic ends it with no value.
RECURSIVE Elements_new_loop(_, _)
Elements_new_loop(elements_data, in_Elementss) ==
    IF in_Elementss = <<>> THEN Done(elements_data)
    ELSE IF ~(Head(in_Elementss) # Invalid) THEN Failed("InvalidTagValue")
    ELSE LET r == add_Elements(elements_data, Head(in_Elementss))
         IN  IF r.err # "ok" THEN Failed(r.err)
             ELSE Elements_new_loop(r.set, Tail(in_Elementss))

\* Elements::new
Elements_new(in_Elementss) ==
    IF ~(Len(in_Elementss) > 0) THEN Failed("EmptyList")
    ELSE Elements_new_loop([names |-> [i \in 1..ELEMENT_COUNT |-> Invalid], count |-> 0],
                      in_Elementss)

\* Elements::get_Elements_count
get_Elements_count(self) == self.count

\* Elements::iter
Elements_iter(self) == [index |-> 0]

\* An ElementIter::next that tests index > Elements_count.
ElementIter_next_inclusive(it, Elementss) ==
    IF it.index > Elementss.count THEN [item |-> None, index |-> it.index]
    ELSE [item |-> Elementss.names[it.index + 1], index |-> it.index + 1]

\* ElementIter::next: [item |-> Some(tag) or None, index |-> the new index]
ElementIter_next(it, Elementss) ==
    IF it.index >= Elementss.count THEN [item |-> None, index |-> it.index]
    ELSE [item |-> Elementss.names[it.index + 1], index |-> it.index + 1]

\* Elements::get_Elementss: the items its iterator yields, in order.
RECURSIVE get_Elementss_from(_, _)
get_Elementss_from(self, it) ==
    LET n == ElementIter_next(it, self)
    IN  IF n.item = None THEN <<>>
        ELSE <<n.item>> \o get_Elementss_from(self, [index |-> n.index])
get_Elementss(self) == get_Elementss_from(self, Elements_iter(self))

\* ---------------------------------------------------------- Type
\* Type: names is the field types, count the field type_count.
\* Type::has_type
has_type(self, in_type) ==
    \E i \in 1..self.count : self.names[i] = in_type

\* An add_type that writes the slot before it asserts non-membership.
add_type_writing_first(self, in_type) ==
    IF has_type(self, in_type)
    THEN [err |-> "DuplicateTag",
          set |-> [self EXCEPT !.names =
                      [i \in 1..TYPE_COUNT |->
                          IF i = self.count + 1 THEN in_type ELSE self.names[i]]]]
    ELSE IF ~(in_type # Invalid) THEN [err |-> "InvalidTagValue", set |-> self]
    ELSE IF ~(self.count < TYPE_COUNT) THEN [err |-> "CapacityExceeded", set |-> self]
    ELSE Done([names |-> [self.names EXCEPT ![self.count + 1] = in_type],
               count |-> self.count + 1])

\* An add_type without the assertion on TypeKind::Invalid.
add_type_accepting_invalid(self, in_type) ==
    IF has_type(self, in_type) THEN [err |-> "DuplicateTag", set |-> self]
    ELSE IF ~(self.count < TYPE_COUNT) THEN [err |-> "CapacityExceeded", set |-> self]
    ELSE Done([names |-> [self.names EXCEPT ![self.count + 1] = in_type],
               count |-> self.count + 1])

\* Type::add_type: the two assertions and the capacity check (a debug_assert
\* in debug builds, the array's bounds check otherwise), then the write.
add_type(self, in_type) ==
    IF has_type(self, in_type) THEN [err |-> "DuplicateTag", set |-> self]
    ELSE IF ~(in_type # Invalid) THEN [err |-> "InvalidTagValue", set |-> self]
    ELSE IF ~(self.count < TYPE_COUNT) THEN [err |-> "CapacityExceeded", set |-> self]
    ELSE Done([names |-> [self.names EXCEPT ![self.count + 1] = in_type],
               count |-> self.count + 1])

\* The loop of Type::new: a panic ends it with no value.
RECURSIVE Type_new_loop(_, _)
Type_new_loop(type_data, in_types) ==
    IF in_types = <<>> THEN Done(type_data)
    ELSE IF ~(Head(in_types) # Invalid) THEN Failed("InvalidTagValue")
    ELSE LET r == add_type(type_data, Head(in_types))
         IN  IF r.err # "ok" THEN Failed(r.err)
             ELSE Type_new_loop(r.set, Tail(in_types))

\* A Type::new without the assertion on the empty list.
Type_new_accepting_empty(in_types) ==
    Type_new_loop([names |-> [i \in 1..TYPE_COUNT |-> Invalid], count |-> 0],
                  in_types)

\* Type::new
Type_new(in_types) ==
    IF ~(Len(in_types) > 0) THEN Failed("EmptyList")
    ELSE Type_new_loop([names |-> [i \in 1..TYPE_COUNT |-> Invalid], count |-> 0],
                      in_types)

\* Type::get_type_count
get_type_count(self) == self.count

\* Type::iter
Type_iter(self) == [index |-> 0]

\* TypeIter::next: [item |-> Some(tag) or None, index |-> the new index]
TypeIter_next(it, types) ==
    IF it.index >= types.count THEN [item |-> None, index |-> it.index]
    ELSE [item |-> types.names[it.index + 1], index |-> it.index + 1]

\* Type::get_types: the items its iterator yields, in order.
RECURSIVE get_types_from(_, _)
get_types_from(self, it) ==
    LET n == TypeIter_next(it, self)
    IN  IF n.item = None THEN <<>>
        ELSE <<n.item>> \o get_types_from(self, [index |-> n.index])
get_types(self) == get_types_from(self, Type_iter(self))

\* ------------------------------------------------- the three instantiations
Insts == {"AbilityNames", "Elements", "Type"}

\* The capacity N of the array.
Capacity(i) ==
    CASE i = "AbilityNames" -> MAX_ABILITIES_COUNT
      [] i = "Elements" -> ELEMENT_COUNT
      [] i = "Type" -> TYPE_COUNT

TagNew(i, list) ==
    CASE i = "AbilityNames" -> AbilityNames_new(list)
      [] i = "Elements" -> Elements_new(list)
      [] i = "Type" -> Type_new(list)

TagAdd(i, self, x) ==
    CASE i = "AbilityNames" -> add_ability(self, x)
      [] i = "Elements" -> add_Elements(self, x)
      [] i = "Type" -> add_type(self, x)

TagHas(i, self, x) ==
    CASE i = "AbilityNames" -> has_ability(self, x)
      [] i = "Elements" -> has_Elements(self, x)
      [] i = "Type" -> has_type(self, x)

TagToList(i, self) ==
    CASE i = "AbilityNames" -> get_names(self)
      [] i = "Elements" -> get_Elementss(self)
      [] i = "Type" -> get_types(self)

TagCount(i, self) ==
    CASE i = "AbilityNames" -> get_count(self)
      [] i = "Elements" -> get_Elements_count(self)
      [] i = "Type" -> get_type_count(self)

TagIter(i, self) ==
    CASE i = "AbilityNames" -> AbilityNames_iter(self)
      [] i = "Elements" -> Elements_iter(self)
      [] i = "Type" -> Type_iter(self)

TagIterNext(i, it, self) ==
    CASE i = "AbilityNames" -> AbilityNamesIter_next(it, self)
      [] i = "Elements" -> ElementIter_next(it, self)
      [] i = "Type" -> TypeIter_next(it, self)

\* ------------------------------------------------------- callers' inputs
\* Single items: the default handle / Invalid and the first valid values.
ItemPool == 0..MaxItem

\* The largest value of a run: all 11 kinds, or one handle more than fits.
RunTop(i) == IF i = "AbilityNames" THEN MAX_ABILITIES_COUNT + 1 ELSE Capacity(i)

\* k distinct valid values, from RunTop down.
Run(i, k) == [j \in 1..k |-> RunTop(i) - j + 1]

\* The items callers pass to add: the single items and the two largest values.
AddItems(i) == ItemPool \cup {RunTop(i), RunTop(i) - 1}

Tails == UNION {[1..n -> ItemPool] : n \in 0..MaxTail}

\* The lists callers pass to new: a run, then up to MaxTail items.
InputLists(i) == {Run(i, k) \o tl : k \in 0..RunTop(i), tl \in Tails}

\* ------------------------------------------------------ tag set actions
NoTagCall == [op |-> "none", err |-> "ok", item |-> 0, list |-> <<>>, found |-> FALSE]
NoIter == [index |-> -1, out |-> <<>>, ends |-> 0]

TagsUnused ==
    /\ inst = "none"
    /\ tset = NoSet
    /\ built = <<>>
    /\ adds = <<>>
    /\ tlast = NoTagCall
    /\ iters = [i \in 1..NumIters |-> NoIter]

\* AbilityNames::default(), the value the run is about.
CallDefault ==
    /\ inst = "AbilityNames"
    /\ tlast = NoTagCall
    /\ tset' = AbilityNames_default
    /\ built' = <<>>
    /\ adds' = <<>>
    /\ tlast' = [NoTagCall EXCEPT !.op = "default"]
    /\ UNCHANGED <<inst, iters>>
    /\ UNCHANGED <<ivars, rvars, nvars>>

\* X::new(list), the first call of the run: it builds the value the run is
\* about, or panics and the run ends. new reads nothing of an earlier value,
\* so a run that builds a second value is a run from the start.
CallNew ==
    /\ tlast = NoTagCall
    /\ \E list \in InputLists(inst) :
          LET r == TagNew(inst, list)
          IN  /\ tset' = r.set
              /\ built' = IF r.err = "ok" THEN list ELSE <<>>
              /\ tlast' = [NoTagCall EXCEPT !.op = "new", !.err = r.err, !.list = list]
    /\ adds' = <<>>
    /\ UNCHANGED <<inst, iters>>
    /\ UNCHANGED <<ivars, rvars, nvars>>

\* set.add_x(item): needs the set mutably, so no iterator borrows it.
CallAdd ==
    /\ tset # NoSet
    /\ Len(adds) <= MaxAdds
    /\ \A i \in 1..NumIters : iters[i] = NoIter
    /\ \E x \in AddItems(inst) :
          LET r == TagAdd(inst, tset, x)
          IN  /\ tset' = r.set
              /\ adds' = IF r.err = "ok" THEN Append(adds, x) ELSE adds
              /\ tlast' = [NoTagCall EXCEPT !.op = "add", !.err = r.err, !.item = x]
    /\ UNCHANGED <<inst, built, iters>>
    /\ UNCHANGED <<ivars, rvars, nvars>>

\* set.has_x(item)
CallHas ==
    /\ tset # NoSet
    /\ \E x \in ItemPool \cup {RunTop(inst)} :
          tlast' = [NoTagCall EXCEPT !.op = "has", !.item = x,
                                     !.found = TagHas(inst, tset, x)]
    /\ UNCHANGED <<inst, tset, built, adds, iters>>
    /\ UNCHANGED <<ivars, rvars, nvars>>

\* set.get_x() and set.get_count(): item is the count.
CallToList ==
    /\ tset # NoSet
    /\ tlast' = [NoTagCall EXCEPT !.op = "to_list", !.list = TagToList(inst, tset),
                                  !.item = TagCount(inst, tset)]
    /\ UNCHANGED <<inst, tset, built, adds, iters>>
    /\ UNCHANGED <<ivars, rvars, nvars>>

\* set.iter(): iterator i starts over the set.
CallIter(i) ==
    /\ tset # NoSet
    /\ iters' = [iters EXCEPT ![i] =
                    [index |-> TagIter(inst, tset).index, out |-> <<>>, ends |-> 0]]
    /\ UNCHANGED <<inst, tset, built, adds, tlast>>
    /\ UNCHANGED <<ivars, rvars, nvars>>

\* iterator i's next(): out collects the Some items, ends counts the None
\* results (up to 2).
CallIterNext(i) ==
    /\ iters[i] # NoIter
    /\ LET n == TagIterNext(inst, [index |-> iters[i].index], tset)
       IN  iters' = [iters EXCEPT ![i] =
                IF n.item = None
                THEN [@ EXCEPT !.index = n.index,
                               !.ends = IF @ < 2 THEN @ + 1 ELSE @]
                ELSE [@ EXCEPT !.index = n.index, !.out = Append(@, n.item)]]
    /\ UNCHANGED <<inst, tset, built, adds, tlast>>
    /\ UNCHANGED <<ivars, rvars, nvars>>

\* ============================================================ AbilityMap
\* The Ability kinds: the types T that implement the trait. A constructor
\* fn() -> Box<dyn Ability> is named by its kind. Kinds 2j - 1 and 2j have the
\* same static_name.
Kinds == 1..NumKinds
NameOfNumber(j) ==
    CASE j = 1 -> "fireball" [] j = 2 -> "tackle" [] j = 3 -> "growl"
      [] OTHER -> "ember"

\* T::static_name()
static_name(T) == NameOfNumber((T + 1) \div 2)

\* T::new(): a fresh instance of the kind, which carries its name.
Ability_new(T) == [kind |-> T, name |-> static_name(T)]

\* Ability::get_name
get_name(ability) == ability.name

\* No instance: the call panicked.
NoAbility == [kind |-> 0, name |-> ""]

\* AbilityMap::new
AbilityMap_new == [n \in {} |-> 0]

\* An add_ability that keeps the constructor a name already has.
AbilityMap_add_ability_keeping_first(m, T) ==
    IF static_name(T) \in DOMAIN m THEN m ELSE HashMapInsert(m, static_name(T), T)

\* AbilityMap::add_ability::<T>: the map afterwards.
AbilityMap_add_ability(m, T) == HashMapInsert(m, static_name(T), T)

\* A new_ability that invokes an entry of the map without looking at the name.
new_ability_any_entry(m, name) ==
    IF DOMAIN m = {} THEN [err |-> "NameNotFound", ability |-> NoAbility]
    ELSE [err |-> "ok",
          ability |-> Ability_new(m[CHOOSE n \in DOMAIN m : TRUE])]

\* AbilityMap::new_ability: get(name).expect(..), then the entry is invoked.
new_ability(m, name) ==
    LET entry == HashMapGet(m, name)
    IN  IF entry = None THEN [err |-> "NameNotFound", ability |-> NoAbility]
        ELSE [err |-> "ok", ability |-> Ability_new(entry)]

\* An is_ability_name that is true of every name once the map has an entry.
is_ability_name_nonempty(m, name) == DOMAIN m # {}

\* AbilityMap::is_ability_name
is_ability_name(m, name) == name \in DOMAIN m

\* The names callers look up: those of the kinds and one no kind has.
LookupNames == {static_name(T) : T \in Kinds} \cup {"aksdaiuhsdpiauhsd"}

NoMapCall == [op |-> "none", name |-> "", kind |-> 0, err |-> "ok",
              ability |-> NoAbility, found |-> FALSE]

RegistryUnused ==
    /\ ability_map = AbilityMap_new
    /\ regs = <<>>
    /\ rlast = NoMapCall

\* map.add_ability::<T>()
CallAddAbility ==
    /\ Len(regs) < MaxRegs
    /\ \E T \in Kinds :
          /\ ability_map' = AbilityMap_add_ability(ability_map, T)
          /\ regs' = Append(regs, T)
          /\ rlast' = [NoMapCall EXCEPT !.op = "add_ability", !.kind = T,
                                        !.name = static_name(T)]
    /\ UNCHANGED <<ivars, tvars, nvars>>

\* map.new_ability(name)
CallNewAbility ==
    /\ \E name \in LookupNames :
          LET r == new_ability(ability_map, name)
          IN  rlast' = [NoMapCall EXCEPT !.op = "new_ability", !.name = name,
                                        !.err = r.err, !.ability = r.ability]
    /\ UNCHANGED <<ability_map, regs>>
    /\ UNCHANGED <<ivars, tvars, nvars>>

\* map.is_ability_name(name)
CallIsAbilityName ==
    /\ \E name \in LookupNames :
          rlast' = [NoMapCall EXCEPT !.op = "is_ability_name", !.name = name,
                       !.found = is_ability_name(ability_map, name)]
    /\ UNCHANGED <<ability_map, regs>>
    /\ UNCHANGED <<ivars, tvars, nvars>>

\* ==================================================== client and server
\* One connection: the client's main and the server's handle_sender thread.
\* A byte is "x" or the newline "\n"; the streams are the bytes in flight.
CLIENT_ROUNDS == 7
SERVER_ROUNDS == 5
BUF_LEN == 512

\* The lines read_line returns: up to MaxLineLen bytes and the newline.
Lines == {[j \in 1..(n + 1) |-> IF j = n + 1 THEN "\n" ELSE "x"] : n \in 0..MaxLineLen}

Min(a, b) == IF a < b THEN a ELSE b

\* read_until(b'\n'): the position of the first newline, 0 when there is none.
FirstNewline(bytes) ==
    IF \E j \in 1..Len(bytes) : bytes[j] = "\n"
    THEN CHOOSE j \in 1..Len(bytes) :
             bytes[j] = "\n" /\ \A k \in 1..(j - 1) : bytes[k] # "\n"
    ELSE 0

NoRound == [n |-> 0, sent |-> <<>>, got |-> <<>>]

\* The connection is made: connect returned, the server thread was spawned.
SessionStart ==
    /\ cpc = "read_line" /\ cround = 0 /\ user_input = <<>>
    /\ spc = "read" /\ sround = 0
    /\ c2s = <<>> /\ s2c = <<>>
    /\ shut = FALSE /\ cclosed = FALSE
    /\ round = NoRound

\* No connection: neither program runs.
SessionUnused ==
    /\ cpc = "exited" /\ cround = 0 /\ user_input = <<>>
    /\ spc = "done" /\ sround = 0
    /\ c2s = <<>> /\ s2c = <<>>
    /\ shut = FALSE /\ cclosed = FALSE
    /\ round = NoRound

\* client main, lines 8-10: the next iteration reads a line from stdin.
ClientReadLine ==
    /\ cpc = "read_line" /\ cround < CLIENT_ROUNDS
    /\ \E line \in Lines : user_input' = line
    /\ cpc' = "write"
    /\ UNCHANGED <<cround, spc, sround, c2s, s2c, shut, cclosed, round>>
    /\ UNCHANGED <<ivars, tvars, rvars>>

\* client main, lines 13-23: stream.write. After the server shut the stream
\* down the write returns Ok with the bytes going nowhere, or an error, on
\* which the client leaves the loop.
ClientWrite ==
    /\ cpc = "write"
    /\ \/ /\ ~shut
          /\ c2s' = c2s \o user_input
          /\ cpc' = "read_until"
          /\ UNCHANGED cclosed
       \/ /\ shut
          /\ cpc' = "read_until"
          /\ UNCHANGED <<c2s, cclosed>>
       \/ /\ shut
          /\ cpc' = "exited" /\ cclosed' = TRUE
          /\ UNCHANGED c2s
    /\ UNCHANGED <<cround, user_input, spc, sround, s2c, shut, round>>
    /\ UNCHANGED <<ivars, tvars, rvars>>

\* client main, lines 25-40: read_until returns the bytes up to the first
\* newline; at end of stream (the server shut down) it returns what there is,
\* or an error, on which the client leaves the loop. The buffer is printed
\* and the iteration ends.
ClientReadUntil ==
    /\ cpc = "read_until"
    /\ LET k == FirstNewline(s2c)
       IN  \/ /\ k > 0
              /\ round' = [n |-> cround + 1, sent |-> user_input,
                           got |-> SubSeq(s2c, 1, k)]
              /\ s2c' = SubSeq(s2c, k + 1, Len(s2c))
              /\ cround' = cround + 1
              /\ cpc' = "read_line"
              /\ UNCHANGED cclosed
           \/ /\ k = 0 /\ shut
              /\ round' = [n |-> cround + 1, sent |-> user_input, got |-> s2c]
              /\ s2c' = <<>>
              /\ cround' = cround + 1
              /\ cpc' = "read_line"
              /\ UNCHANGED cclosed
           \/ /\ k = 0 /\ shut
              /\ cpc' = "exited" /\ cclosed' = TRUE
              /\ UNCHANGED <<round, s2c, cround>>
    /\ UNCHANGED <<user_input, spc, sround, c2s, shut>>
    /\ UNCHANGED <<ivars, tvars, rvars>>

\* client main, lines 41-44: the loop is over, the stream is dropped.
ClientExit ==
    /\ cpc = "read_line" /\ cround = CLIENT_ROUNDS
    /\ cpc' = "exited" /\ cclosed' = TRUE
    /\ UNCHANGED <<cround, user_input, spc, sround, c2s, s2c, shut, round>>
    /\ UNCHANGED <<ivars, tvars, rvars>>

\* handle_sender, lines 8-19: one iteration. read returns some of the bytes
\* in flight, at most BUF_LEN, which are written back; or 0 when the client
\* dropped the stream, and handle_sender returns.
ServerEcho ==
    /\ spc = "read" /\ sround < SERVER_ROUNDS
    /\ \/ /\ c2s # <<>>
          /\ \E bytes_read \in 1..Min(Len(c2s), BUF_LEN) :
                /\ s2c' = s2c \o SubSeq(c2s, 1, bytes_read)
                /\ c2s' = SubSeq(c2s, bytes_read + 1, Len(c2s))
          /\ sround' = sround + 1
          /\ UNCHANGED <<spc, shut>>
       \/ /\ c2s = <<>> /\ cclosed
          /\ spc' = "done" /\ shut' = TRUE
          /\ UNCHANGED <<c2s, s2c, sround>>
    /\ UNCHANGED <<cpc, cround, user_input, cclosed, round>>
    /\ UNCHANGED <<ivars, tvars, rvars>>

\* handle_sender, lines 20-22: after the loop the stream is shut down both
\* ways and handle_sender returns.
ServerShutdown ==
    /\ spc = "read" /\ sround = SERVER_ROUNDS
    /\ spc' = "done" /\ shut' = TRUE
    /\ UNCHANGED <<cpc, cround, user_input, sround, c2s, s2c, cclosed, round>>
    /\ UNCHANGED <<ivars, tvars, rvars>>

\* ------------------------------------------------------- specifications
\* The interner, called by the threads.
Init == InternerInit /\ TagsUnused /\ RegistryUnused /\ SessionUnused

Next ==
    \E t \in Threads :
        \/ default(t)
        \/ CallText(t)
        \/ CallToString(t)
        \/ new_insert(t)
        \/ new_push(t)
        \/ new_if_exists(t)
        \/ to_string(t)

Spec == Init /\ [][Next]_vars

\* One tag set value of one of the three types: construction, add, reads.
TagsInit ==
    /\ InternerInit
    /\ RegistryUnused
    /\ SessionUnused
    /\ inst \in Insts
    /\ tset = NoSet
    /\ built = <<>>
    /\ adds = <<>>
    /\ tlast = NoTagCall
    /\ iters = [i \in 1..NumIters |-> NoIter]

TagsNext ==
    \/ CallDefault
    \/ CallNew
    \/ CallAdd
    \/ CallHas
    \/ CallToList

SpecTags == TagsInit /\ [][TagsNext]_vars

\* One tag set value and the iterators over it.
IterNext ==
    \/ CallDefault
    \/ CallNew
    \/ \E i \in 1..NumIters : CallIter(i)
    \/ \E i \in 1..NumIters : CallIterNext(i)

SpecIter == TagsInit /\ [][IterNext]_vars

\* The AbilityMap: registration and lookups.
RegistryInit == InternerInit /\ TagsUnused /\ RegistryUnused /\ SessionUnused

RegistryNext ==
    \/ CallAddAbility
    \/ CallNewAbility
    \/ CallIsAbilityName

SpecRegistry == RegistryInit /\ [][RegistryNext]_vars

\* One client connected to the server.
SessionInit == InternerInit /\ TagsUnused /\ RegistryUnused /\ SessionStart

SessionNext ==
    \/ ClientReadLine
    \/ ClientWrite
    \/ ClientReadUntil
    \/ ClientExit
    \/ ServerEcho
    \/ ServerShutdown

SpecSession == SessionInit /\ [][SessionNext]_vars

\* ================================================================= claims
\* No thread is inside the critical section: the tables are as the call that
\* completed last left them.
Quiescent == lock = NoThread

InternedTexts == {p.text : p \in handed}

\* C1: every GlobalString::new(s) returns the handle the first new(s)
\* returned: any two completed new calls on the same text got the same id.
C1_InternIdempotent ==
    \A p, q \in handed : p.text = q.text => p.id = q.id

\* C2: handles are injective: completed new calls on different texts never
\* got the same id.
C2_HandlesInjective ==
    \A p, q \in handed : p.text # q.text => p.id # q.id

\* C3: round trip: a to_string on a handle that some earlier new(s) returned
\* returns exactly s.
C3_RoundTrip ==
    last.op = "to_string" =>
        \A p \in handed : p.id = last.id => (last.ok /\ last.text = p.text)

\* C4: every handle handed out by new, new_if_exists or default indexes an
\* existing slot of vec when it is returned and ever after, and no call made
\* with such handles fails.
C4_ResolveNeverFails ==
    /\ \A h \in held : InRange(vec, h)
    /\ \A t \in Threads : pc[t] # "panicked"
    /\ last.ok

\* What a consistent table looks like to a call that has just taken the lock.
OneSlotPerText ==
    \A s \in DOMAIN map : Cardinality({i \in 1..Len(vec) : vec[i] = s}) = 1
OneKeyPerText ==
    /\ \A i \in 1..Len(vec) : vec[i] \in DOMAIN map
    /\ Cardinality(DOMAIN map) = Len(vec)
EntryHasSlot ==
    \A s \in DOMAIN map : InRange(vec, map[s]) /\ vec[map[s] + 1] = s
MutualExclusion ==
    /\ Cardinality({t \in Threads : pc[t] \in {"body", "push"}}) <= 1
    /\ \A t \in Threads : pc[t] \in {"body", "push"} <=> lock = t

\* C5: calls are atomic under the one mutex: at most one thread is inside a
\* call, and a call that has just taken the lock finds every interned text in
\* exactly one slot of vec, one key per text, and no forward-map entry
\* without its slot of vec.
C5_AtomicUnderMutex ==
    /\ MutualExclusion
    /\ \A t \in Threads :
          pc[t] = "body" => OneSlotPerText /\ OneKeyPerText /\ EntryHasSlot

\* C6: new_if_exists(s) of a text that was interned returns the handle
\* new(s) returned.
C6_LookupAgreesWithIntern ==
    (last.op = "new_if_exists" /\ last.ok) =>
        \A p \in handed : p.text = last.text => p.id = last.id

\* C7: no step of a new_if_exists call (taking the lock, the lookup) changes
\* map, vec or next_id.
C7_LookupNeverMutates ==
    [][\A t \in Threads :
          (op[t] = "new_if_exists" \/ op'[t] = "new_if_exists")
              => UNCHANGED tables]_vars

\* C7 witness: a lookup of a non-empty text that is in the table has returned.
C7_Witness ==
    /\ Quiescent
    /\ last.op = "new_if_exists" /\ last.ok
    /\ last.text # "" /\ last.text \in DOMAIN map

\* A new_if_exists of a text that is not in the table has just returned.
LookupOfAbsent ==
    /\ Quiescent
    /\ last.op = "new_if_exists" /\ last.ok
    /\ last.text \notin DOMAIN map

\* C8 as stated: the result of new_if_exists for a text never interned is
\* not the result it gives for any text that is in the table.
C8_AbsentIsDistinguishable ==
    LookupOfAbsent => \A u \in DOMAIN map : NewIfExistsId(map, u) # last.id

\* C8 amended: the result for a text never interned is the default handle 0,
\* the slot of the empty string; it differs from the result for every
\* non-empty text in the table.
C8_AbsentIsDefaultHandle ==
    LookupOfAbsent =>
        /\ last.id = 0
        /\ vec[last.id + 1] = ""
        /\ \A u \in DOMAIN map \ {""} : NewIfExistsId(map, u) # last.id

\* C8 witness: an absent text was looked up while a non-empty text is interned.
C8_Witness ==
    LookupOfAbsent /\ DOMAIN map \ {""} # {}

\* C9: default() is handle 0 and to_string of it returns "" in every
\* reachable state.
C9_DefaultResolvesEmpty ==
    /\ last.op = "default" => last.id = 0
    /\ (last.op = "to_string" /\ last.id = 0) => (last.ok /\ last.text = "")

\* Slot 0 holds "" in every state (the part of C9 the tables alone decide).
SlotZeroIsEmpty == Len(vec) >= 1 /\ vec[1] = ""

\* C10: handles are dense and first-seen ordered: slot 0 is "", the k-th new
\* text got handle k, every handle new returned is below Len(vec), and
\* next_id equals Len(vec).
C10_DenseFirstSeen ==
    /\ SlotZeroIsEmpty
    /\ \A k \in 1..Len(firstSeen) : firstSeen[k].id = k
    /\ \A p \in handed : p.id < Len(vec)
    /\ next_id = Len(vec)

VecTexts == {vec[i] : i \in 1..Len(vec)}

\* The step completes a GlobalString::new of a text that has no slot of vec.
InternOfNewText ==
    \E t \in Threads :
        op[t] = "new" /\ op'[t] = "none" /\ in_string[t] \notin VecTexts

\* C11: vec is append-only: no step shortens it or changes a written slot;
\* it grows by exactly one slot on a new of a text not yet in it and by none
\* on every other step (new of a known text, new_if_exists, to_string).
C11_AppendOnly ==
    [][/\ Len(vec') >= Len(vec)
       /\ \A i \in 1..Len(vec) : vec'[i] = vec[i]
       /\ Len(vec') = IF InternOfNewText THEN Len(vec) + 1 ELSE Len(vec)]_vars

\* C11 witness: two texts were pushed and a text with a slot was interned
\* again without a push.
C11_Witness ==
    /\ Len(vec) = 3
    /\ last.op = "new" /\ last.id < 2 /\ last.text \in VecTexts
    /\ Quiescent

\* ------------------------------------------------------------- tag sets
\* The members of a tag set value, in slot order: its first count slots.
Members(set) == [i \in 1..set.count |-> set.names[i]]

PairwiseDistinct(seq) ==
    \A i, j \in 1..Len(seq) : i # j => seq[i] # seq[j]

\* C12: whatever default/new/add calls were made on an AbilityNames, Elements
\* or Type value, and whether they succeeded or panicked, its count is at most
\* the capacity of its array and its first count slots are pairwise distinct.
C12_CountBoundedMembersDistinct ==
    tset # NoSet =>
        /\ tset.count \in 0..Capacity(inst)
        /\ PairwiseDistinct(Members(tset))

\* A set filled to capacity by a successful add, after a failed add.
C12_Witness ==
    /\ tset # NoSet
    /\ tset.count = Capacity(inst)
    /\ Len(adds) >= 1
    /\ tlast.op = "add" /\ tlast.err # "ok"

Range(seq) == {seq[i] : i \in 1..Len(seq)}

\* The value the unused slots hold: the default handle (string_id 0) in an
\* AbilityNames, Invalid in an Elements or Type.
Sentinel(i) == IF i = "AbilityNames" THEN 0 ELSE Invalid

\* The items of a list before its first occurrence of x.
BeforeFirst(seq, x) ==
    LET k == CHOOSE n \in 1..Len(seq) :
                 seq[n] = x /\ \A j \in 1..(n - 1) : seq[j] # x
    IN  SubSeq(seq, 1, k - 1)

\* C13 as claimed: the sentinel is never among the first count members of a
\* tag set of either kind, and add and new reject it with InvalidTagValue.
C13_SentinelNeverMember ==
    /\ tset # NoSet => Sentinel(inst) \notin Range(Members(tset))
    /\ (tlast.op = "add" /\ tlast.item = Sentinel(inst)) =>
           tlast.err = "InvalidTagValue"
    /\ (tlast.op = "new" /\ Sentinel(inst) \in Range(tlast.list)) =>
           tlast.err = "InvalidTagValue"

\* C13 amended: Invalid is never a member of an Elements or a Type;
\* add_Elements / add_type of Invalid panics on the Invalid assertion and the
\* set stays without it; new on a list holding Invalid returns no value, on
\* the Invalid assertion unless an item repeats before the first Invalid (then
\* on the duplicate assertion). An AbilityNames has no sentinel: no call on it
\* fails for the value of the handle.
C13_InvalidNeverMember ==
    /\ inst \in {"Elements", "Type"} =>
          /\ tset # NoSet => Invalid \notin Range(Members(tset))
          /\ (tlast.op = "add" /\ tlast.item = Invalid) =>
                 tlast.err = "InvalidTagValue"
          /\ (tlast.op = "new" /\ Invalid \in Range(tlast.list)) =>
                 /\ tset = NoSet
                 /\ tlast.err = IF PairwiseDistinct(BeforeFirst(tlast.list, Invalid))
                                THEN "InvalidTagValue" ELSE "DuplicateTag"
    /\ inst = "AbilityNames" => tlast.err # "InvalidTagValue"

\* add of Invalid was called on an Elements that has members.
C13_Witness ==
    /\ inst = "Elements"
    /\ tset # NoSet /\ tset.count >= 1
    /\ tlast.op = "add" /\ tlast.item = Invalid

\* What the last add did to the set, for an item that is not a member and not
\* the sentinel, on a set with room.
AddAppends ==
    (/\ tlast'.op = "add"
     /\ tset # NoSet
     /\ tlast'.item \notin Range(Members(tset))
     /\ tlast'.item # Sentinel(inst)
     /\ tset.count < Capacity(inst))
    => /\ tlast'.err = "ok"
       /\ tset'.names[tset.count + 1] = tlast'.item
       /\ tset'.count = tset.count + 1
       /\ \A i \in 1..tset.count : tset'.names[i] = tset.names[i]

\* C14: a successful add writes the item at position count, increases count by
\* one and leaves the earlier members in place; so the count is the number of
\* items the set was built with plus the number added since, and the list of
\* members is those items in the order they came (after k adds on an empty
\* set: count k, members the k items in order).
C14_AddAppendsInOrder ==
    /\ [][AddAppends]_vars
    /\ [](tset # NoSet =>
            /\ TagCount(inst, tset) = Len(built) + Len(adds)
            /\ TagToList(inst, tset) = built \o adds)

\* Two items were added to an empty AbilityNames and the members were read.
C14_Witness ==
    /\ inst = "AbilityNames"
    /\ built = <<>> /\ Len(adds) = 2
    /\ tlast.op = "to_list" /\ tlast.list = adds /\ tlast.item = 2

\* C15: an add of a value that is among the members panics on the duplicate
\* assertion, and the value the caller holds is as before the call: the same
\* array, slot for slot, and the same count.
C15_DuplicateAddRejectedUnchanged ==
    [][(/\ tlast'.op = "add"
        /\ tset # NoSet
        /\ tlast'.item \in Range(Members(tset)))
       => /\ tlast'.err = "DuplicateTag"
          /\ tset' = tset
          /\ adds' = adds]_vars

\* add_type of a member of a Type that has room was called.
C15_Witness ==
    /\ inst = "Type"
    /\ tset # NoSet /\ tset.count \in 1..(TYPE_COUNT - 1)
    /\ tlast.op = "add" /\ tlast.err = "DuplicateTag"
    /\ tlast.item \in Range(Members(tset))

\* C16: add_ability of a value that is not a member panics on the capacity
\* assertion and leaves the AbilityNames as it was when it holds
\* MAX_ABILITIES_COUNT members, and succeeds when it holds fewer: the first 5
\* distinct values added to an empty AbilityNames go in, the 6th does not.
C16_FullAbilityNamesRejectsAdd ==
    [][(/\ tlast'.op = "add"
        /\ inst = "AbilityNames"
        /\ tset # NoSet
        /\ tlast'.item \notin Range(Members(tset)))
       => IF tset.count = MAX_ABILITIES_COUNT
          THEN /\ tlast'.err = "CapacityExceeded"
               /\ tset' = tset
               /\ adds' = adds
          ELSE /\ tlast'.err = "ok"
               /\ tset'.count = tset.count + 1
               /\ adds' = Append(adds, tlast'.item)]_vars

\* Five values were added to AbilityNames::default() and a sixth add failed.
C16_Witness ==
    /\ inst = "AbilityNames"
    /\ built = <<>> /\ Len(adds) = MAX_ABILITIES_COUNT
    /\ tset.count = MAX_ABILITIES_COUNT
    /\ tlast.op = "add" /\ tlast.err = "CapacityExceeded"

\* The list is one of pairwise distinct tags, none the sentinel, that fit.
DistinctValidFitting(list) ==
    /\ PairwiseDistinct(list)
    /\ Sentinel(inst) \notin Range(list)
    /\ Len(list) <= Capacity(inst)

\* new returned a value whose members are the list, in its order, and whose
\* count is the list's length.
BuiltAsListed ==
    /\ tlast.err = "ok"
    /\ tset # NoSet
    /\ TagToList(inst, tset) = tlast.list
    /\ TagCount(inst, tset) = Len(tlast.list)

\* C17 as claimed: new on any list of pairwise distinct valid tags of length
\* at most N succeeds, and the value's members are the list in its order and
\* its count the list's length.
C17_FromListRoundTrip ==
    (tlast.op = "new" /\ DistinctValidFitting(tlast.list)) => BuiltAsListed

\* C17 amended: the same for every such list passed to AbilityNames::new, and
\* for every such list of at least one item passed to Elements::new or
\* Type::new, which panic on the empty list.
C17_FromListRoundTripNonEmpty ==
    /\ (/\ tlast.op = "new"
        /\ DistinctValidFitting(tlast.list)
        /\ (inst = "AbilityNames" \/ Len(tlast.list) > 0))
       => BuiltAsListed
    /\ (tlast.op = "new" /\ inst # "AbilityNames" /\ tlast.list = <<>>)
       => (tlast.err = "EmptyList" /\ tset = NoSet)

\* Elements::new returned for a list of all ELEMENT_COUNT kinds.
C17_Witness ==
    /\ inst = "Elements"
    /\ tlast.op = "new" /\ tlast.err = "ok"
    /\ Len(tlast.list) = ELEMENT_COUNT
    /\ TagToList(inst, tset) = tlast.list

\* C18 as claimed: new fails with CapacityExceeded on every list longer than
\* N and with DuplicateTag on every list of length at most N in which an item
\* repeats, for AbilityNames and for Elements / Type alike, and a new that
\* fails returns no value.
C18_FromListFailures ==
    tlast.op = "new" =>
        /\ Len(tlast.list) > Capacity(inst) => tlast.err = "CapacityExceeded"
        /\ (Len(tlast.list) <= Capacity(inst) /\ ~PairwiseDistinct(tlast.list))
              => tlast.err = "DuplicateTag"
        /\ tlast.err # "ok" => tset = NoSet

\* C18 amended: AbilityNames::new fails as claimed. Elements::new and
\* Type::new have no assertion on the length: on a list longer than N, or one
\* in which an item repeats, they panic on the first offending item, with
\* InvalidTagValue when an Invalid comes before any repeat and with
\* DuplicateTag otherwise, never with CapacityExceeded. A new that fails
\* returns no value.
C18_FromListFailsOnFirstOffence ==
    tlast.op = "new" =>
        /\ tlast.err # "ok" => tset = NoSet
        /\ inst = "AbilityNames" =>
              /\ Len(tlast.list) > MAX_ABILITIES_COUNT
                    => tlast.err = "CapacityExceeded"
              /\ (/\ Len(tlast.list) <= MAX_ABILITIES_COUNT
                  /\ ~PairwiseDistinct(tlast.list))
                    => tlast.err = "DuplicateTag"
        /\ (/\ inst # "AbilityNames"
            /\ (Len(tlast.list) > Capacity(inst) \/ ~PairwiseDistinct(tlast.list)))
              => tlast.err =
                    IF /\ Invalid \in Range(tlast.list)
                       /\ PairwiseDistinct(BeforeFirst(tlast.list, Invalid))
                    THEN "InvalidTagValue"
                    ELSE "DuplicateTag"

\* Elements::new was called on a list of more than ELEMENT_COUNT items with no
\* Invalid in it.
C18_Witness ==
    /\ inst = "Elements"
    /\ tlast.op = "new"
    /\ Len(tlast.list) > ELEMENT_COUNT
    /\ Invalid \notin Range(tlast.list)
    /\ tset = NoSet

Fresh == [index |-> 0, out |-> <<>>, ends |-> 0]

\* What one step does to iterator i when it changes it: iter() restarts it,
\* and next() yields the member after those yielded so far, or
\* end-of-sequence once all were; the set and the other iterators stay.
IterStep(i) ==
    iters'[i] # iters[i] =>
        /\ tset' = tset
        /\ \A j \in 1..NumIters : j # i => iters'[j] = iters[j]
        /\ \/ iters'[i] = Fresh
           \/ /\ iters[i] # NoIter
              /\ LET n == Len(iters[i].out)
                 IN  IF n < tset.count
                     THEN /\ iters'[i].out = Append(iters[i].out, Members(tset)[n + 1])
                          /\ iters'[i].ends = 0
                     ELSE /\ iters'[i].out = iters[i].out
                          /\ iters'[i].ends = iters[i].ends + 1

\* Where iterator i stands: it yielded the first index members, in order, its
\* index is at most the count, and it returned end-of-sequence only after it
\* yielded every member.
IterStands(i) ==
    iters[i] # NoIter =>
        /\ iters[i].index \in 0..tset.count
        /\ iters[i].out = SubSeq(Members(tset), 1, iters[i].index)
        /\ iters[i].ends > 0 => iters[i].out = Members(tset)

\* C20: an iterator over a set of k members yields the k members in order on
\* its first k next() calls and end-of-sequence on every call after, its
\* index never exceeds k, and a next() changes neither the set nor another
\* iterator over it.
C20_IteratorYieldsMembersThenEnds ==
    /\ [](\A i \in 1..NumIters : IterStands(i))
    /\ [][\A i \in 1..NumIters : IterStep(i)]_vars

\* One iterator over an Elements of all ELEMENT_COUNT kinds returned
\* end-of-sequence twice while another stands on the fourth member.
C20_Witness ==
    /\ inst = "Elements"
    /\ tset # NoSet /\ tset.count = ELEMENT_COUNT
    /\ iters[1] # NoIter /\ iters[1].ends = 2
    /\ iters[1].out = Members(tset)
    /\ iters[2] # NoIter /\ iters[2].index = 3
\* C25: on an AbilityNames the duplicate assertion of add_ability comes before
\* the capacity assertion: with MAX_ABILITIES_COUNT members, add of a member
\* fails with DuplicateTag and add of any other value with CapacityExceeded;
\* and AbilityNames::new of a list longer than MAX_ABILITIES_COUNT fails with
\* CapacityExceeded and returns no value, also when items of the list repeat.
C25_AbilityNamesErrorPrecedence ==
    /\ [][(/\ tlast'.op = "add"
           /\ inst = "AbilityNames"
           /\ tset # NoSet
           /\ tset.count = MAX_ABILITIES_COUNT)
          => /\ tlast'.err = IF tlast'.item \in Range(Members(tset))
                             THEN "DuplicateTag" ELSE "CapacityExceeded"
             /\ tset' = tset]_vars
    /\ []((/\ tlast.op = "new"
           /\ inst = "AbilityNames"
           /\ Len(tlast.list) > MAX_ABILITIES_COUNT)
          => (tlast.err = "CapacityExceeded" /\ tset = NoSet))

\* add_ability of a member was called on an AbilityNames with
\* MAX_ABILITIES_COUNT members.
C25_Witness ==
    /\ inst = "AbilityNames"
    /\ tset # NoSet /\ tset.count = MAX_ABILITIES_COUNT
    /\ tlast.op = "add" /\ tlast.err = "DuplicateTag"
    /\ tlast.item \in Range(Members(tset))

\* C26: on an Elements or a Type the capacity check of add never fires: no
\* new or add call fails on it, because an item that passes the duplicate and
\* the Invalid assertions finds fewer than 11 members; so the count never
\* exceeds 11 and the slot written is always inside the array.
C26_CapacityCheckUnreachable ==
    inst \in {"Elements", "Type"} =>
        /\ tlast.err # "CapacityExceeded"
        /\ tset # NoSet =>
              /\ tset.count <= Capacity(inst)
              /\ DOMAIN tset.names = 1..Capacity(inst)

\* add_type was called on a Type that holds all TYPE_COUNT kinds.
C26_Witness ==
    /\ inst = "Type"
    /\ tset # NoSet /\ tset.count = TYPE_COUNT
    /\ tlast.op = "add" /\ tlast.err \in {"DuplicateTag", "InvalidTagValue"}

\* C27: an Elements or a Type is never empty: new on the empty list panics
\* and returns no value, and every value a caller holds, after whatever new
\* and add calls, has between 1 and 11 members.
C27_ElementsNeverEmpty ==
    inst \in {"Elements", "Type"} =>
        /\ (tlast.op = "new" /\ tlast.list = <<>>) =>
               (tlast.err # "ok" /\ tset = NoSet)
        /\ tset # NoSet => TagCount(inst, tset) \in 1..Capacity(inst)

\* Type::new was called on the empty list.
C27_Witness ==
    /\ inst = "Type"
    /\ tlast.op = "new" /\ tlast.list = <<>>
    /\ tset = NoSet

\* ------------------------------------------------------------ AbilityMap
\* The names add_ability was called for.
RegisteredNames == {static_name(regs[i]) : i \in 1..Len(regs)}

\* The kind add_ability was last called with for the name.
LastRegistered(name) ==
    LET k == CHOOSE n \in 1..Len(regs) :
                 /\ static_name(regs[n]) = name
                 /\ \A j \in (n + 1)..Len(regs) : static_name(regs[j]) # name
    IN  regs[k]

\* C21: new_ability(n) returns an instance exactly when add_ability was called
\* for a kind named n and panics with the name-not-valid message otherwise;
\* is_ability_name(n) is true exactly when new_ability(n) would return; and
\* neither call changes the map.
C21_LookupAgreesWithRegistration ==
    /\ [](rlast.op = "new_ability" =>
             /\ (rlast.err = "ok") = (rlast.name \in RegisteredNames)
             /\ rlast.err \in {"ok", "NameNotFound"})
    /\ [](rlast.op = "is_ability_name" =>
             /\ rlast.found = (new_ability(ability_map, rlast.name).err = "ok")
             /\ rlast.found = (rlast.name \in RegisteredNames))
    /\ [][rlast'.op \in {"new_ability", "is_ability_name"}
             => ability_map' = ability_map]_vars

\* new_ability panicked for the name of a kind that was not registered, on a
\* map that has entries.
C21_Witness ==
    /\ Len(regs) >= 1
    /\ rlast.op = "new_ability" /\ rlast.err = "NameNotFound"
    /\ rlast.name \in {static_name(T) : T \in Kinds}

\* C22: the instance new_ability(n) returns for a registered name n has
\* get_name() equal to n, the static_name its kind was registered under.
C22_CreatedInstanceHasItsName ==
    (rlast.op = "new_ability" /\ rlast.err = "ok") =>
        /\ get_name(rlast.ability) = rlast.name
        /\ static_name(rlast.ability.kind) = rlast.name

\* new_ability returned an instance on a map that holds two names.
C22_Witness ==
    /\ Cardinality(DOMAIN ability_map) >= 2
    /\ rlast.op = "new_ability" /\ rlast.err = "ok"
    /\ get_name(rlast.ability) = rlast.name

\* What add_ability does when the name of the kind has an entry.
Overwrites ==
    (/\ rlast'.op = "add_ability"
     /\ regs' # regs
     /\ rlast'.name \in DOMAIN ability_map)
    => /\ rlast'.err = "ok"
       /\ Cardinality(DOMAIN ability_map') = Cardinality(DOMAIN ability_map)
       /\ new_ability(ability_map', rlast'.name).ability.kind = rlast'.kind
       /\ \A n \in DOMAIN ability_map \ {rlast'.name} :
             ability_map'[n] = ability_map[n]

\* C23: add_ability of a kind whose name has an entry overwrites it: no
\* error, as many names as before, new_ability(name) afterwards invokes the
\* constructor registered last, the entries of the other names are as they
\* were; and a name that has an entry keeps having one.
C23_DuplicateRegistrationOverwrites ==
    /\ [][Overwrites]_vars
    /\ [][DOMAIN ability_map \subseteq DOMAIN ability_map']_vars
    /\ []((rlast.op = "new_ability" /\ rlast.err = "ok") =>
             rlast.ability.kind = LastRegistered(rlast.name))

\* Two kinds of one name were registered, with another name, and new_ability
\* of the name returned an instance of the second kind.
C23_Witness ==
    /\ Len(regs) = 3
    /\ static_name(regs[1]) = static_name(regs[3]) /\ regs[1] # regs[3]
    /\ static_name(regs[2]) # static_name(regs[1])
    /\ rlast.op = "new_ability" /\ rlast.err = "ok"
    /\ rlast.ability.kind = regs[3]

\* ------------------------------------------------------ client and server
\* C28: the client performs at most CLIENT_ROUNDS rounds, and in every round
\* it completes, what it read back before starting the next round is the
\* line it sent, byte for byte.
C28_EveryRoundEchoed ==
    /\ cround <= CLIENT_ROUNDS
    /\ round.n > 0 => round.got = round.sent


\* ---------------------------------------------- interner, both directions
\* C24: whenever no call is inside the critical section, every entry
\* (text -> id) of map has id < vec.len() and vec[id] = text, and every slot
\* of vec is the value of exactly one key of map.
C24_ForwardReverseConsistent ==
    Quiescent =>
        /\ EntryHasSlot
        /\ \A i \in 1..Len(vec) :
              Cardinality({s \in DOMAIN map : map[s] = i - 1}) = 1


\* ------------------------------------------------------------ type sanity
TypeOK ==
    /\ DOMAIN map \subseteq Texts
    /\ \A s \in DOMAIN map : map[s] \in Nat
    /\ next_id \in Nat
    /\ lock \in Threads \cup {NoThread}
    /\ poisoned \in BOOLEAN
====
